---- MODULE Spec2Model ----
(***************************************************************************)
(* Model of the info-remover batch pipeline:                               *)
(*   ipcMain.handle("process-files")  (the batch orchestrator)             *)
(*   resolvePaths                     (outputStrategy)                     *)
(*   processByType                    (processorRouter)                    *)
(*   processImage / processPdf / processOffice / processZip / processVideo *)
(* The file system is a function from paths to files.  A path is the       *)
(* record path.parse gives for it: dir, name (a sequence of tokens, so     *)
(* that names can be concatenated) and ext.                                *)
(***************************************************************************)
EXTENDS Naturals, Sequences, FiniteSets, TLC

(* ---------------------------- bounds ---------------------------------- *)
MaxItems == 2      \* longest batch
MaxFaults == 2     \* most injected IO/tool faults in one batch

(* ----------------------------- paths ----------------------------------- *)
Path(d, n, e) == [dir |-> d, name |-> n, ext |-> e]

\* the empty string "" as a path: path.parse("") has empty dir, name and ext
EmptyPath == Path("", <<>>, "")
\* the value of an optional path field that is not set (outputPath?: string)
undefined == Path("<undefined>", <<>>, "")

\* ext.toLowerCase()
toLowerCase(e) == IF e = ".JPG" THEN ".jpg" ELSE e

(* --------------------------- the files --------------------------------- *)
\* kind: what the content-signature probe reports for the content
\* payload: the primary content; meta: embedded metadata present
\* ok: the content decodes; time: atime/mtime, counted in half milliseconds
\* (an odd time has a sub-millisecond part)
File(k, p, m, o, t) == [kind |-> k, payload |-> p, meta |-> m, ok |-> o, time |-> t]

A_JPG  == Path("d1", <<"a">>, ".jpg")
A2_JPG == Path("d2", <<"a">>, ".jpg")
S_JPG  == Path("d1", <<"s">>, ".JPG")
C_PDF  == Path("d1", <<"c">>, ".pdf")
R_DOCX == Path("d1", <<"r">>, ".docx")
N_NOEXT == Path("d1", <<"n">>, "")
Q_NOEXT == Path("d1", <<"q">>, "")
L_DOC  == Path("d1", <<"l">>, ".doc")
Z_ZIP  == Path("d1", <<"z">>, ".zip")
V_MP4  == Path("d1", <<"v">>, ".mp4")
K_MP3  == Path("d1", <<"k">>, ".mp3")
T_TXT  == Path("d1", <<"t">>, ".txt")
M_PNG  == Path("d1", <<"m">>, ".png")   \* does not exist

\* the files on disk before the batch
World ==
  (A_JPG   :> File("image", "p1", TRUE, TRUE, 11)) @@
  (A2_JPG  :> File("image", "p2", TRUE, TRUE, 10)) @@
  (S_JPG   :> File("pdf",   "p3", TRUE, TRUE, 10)) @@
  (C_PDF   :> File("none",  "p4", TRUE, FALSE, 10)) @@
  (R_DOCX  :> File("ooxml", "p5", TRUE, TRUE, 11)) @@
  (N_NOEXT :> File("ooxml", "p6", TRUE, TRUE, 10)) @@
  (Q_NOEXT :> File("pdf",   "p7", TRUE, TRUE, 10)) @@
  (L_DOC   :> File("cfb",   "p8", TRUE, TRUE, 10)) @@
  (Z_ZIP   :> File("zip",   "p9", TRUE, TRUE, 10)) @@
  (V_MP4   :> File("video", "p10", TRUE, TRUE, 13)) @@
  (K_MP3   :> File("audio", "p11", TRUE, TRUE, 10)) @@
  (T_TXT   :> File("none",  "p12", TRUE, TRUE, 10))

WorldDirs == {"d1", "d2"}

\* ProcessItem: {path}; an item without a path has the empty path
Item(p) == [path |-> p]
ItemSet == {Item(p) : p \in (DOMAIN World) \cup {M_PNG, EmptyPath}}

\* ProcessOptions: copySuffix is a token sequence, or <<"?">> when not given
NoSuffix == <<"?">>
Options(ow, od, cs) == [overwriteSource |-> ow, outputDir |-> od, copySuffix |-> cs]
OptionSet ==
  { Options(TRUE,  "",    NoSuffix),
    Options(TRUE,  "out", <<>>),
    Options(FALSE, "out", NoSuffix),
    Options(FALSE, "d1",  <<>>),
    Options(FALSE, "",    NoSuffix) }

(* ------------------------- resolvePaths --------------------------------- *)
\* a default taken with || instead of ??: the empty suffix is replaced too
SuffixFalsy(o) == IF o.copySuffix \in {NoSuffix, <<>>} THEN <<"-clean">> ELSE o.copySuffix

\* options.copySuffix ?? "-clean"
Suffix(o) == IF o.copySuffix = NoSuffix THEN <<"-clean">> ELSE o.copySuffix

\* a resolver that sanitizes in place
TempPathInPlace(p, o) == p

\* overwrite mode: the hidden sibling .<name><suffix>_tmp<ext>
TempPath(p, o) == Path(p.dir, <<".">> \o p.name \o Suffix(o) \o <<"_tmp">>, p.ext)

\* copy mode: <outputDir>/<name><suffix><ext>
CopyPath(p, o) == Path(o.outputDir, p.name \o Suffix(o), p.ext)

\* a resolver without the outputDir check
resolvePathsNoDirCheck(p, o) ==
  IF o.overwriteSource
    THEN [throws |-> FALSE, outputPath |-> TempPath(p, o), mkdir |-> FALSE, msg |-> ""]
    ELSE [throws |-> FALSE, outputPath |-> CopyPath(p, o), mkdir |-> TRUE, msg |-> ""]

\* the part of resolvePaths without its mkdir: throws, or the outputPath
resolvePaths(p, o) ==
  IF o.overwriteSource
    THEN [throws |-> FALSE, outputPath |-> TempPath(p, o), mkdir |-> FALSE, msg |-> ""]
    ELSE IF o.outputDir = ""
      THEN [throws |-> TRUE, outputPath |-> undefined, mkdir |-> FALSE, msg |-> "no output dir"]
      ELSE [throws |-> FALSE, outputPath |-> CopyPath(p, o), mkdir |-> TRUE, msg |-> ""]

(* ------------------------ processByType --------------------------------- *)
imageExts == {".jpg", ".jpeg", ".png", ".webp", ".tiff", ".gif", ".avif", ".heic"}
officeExts == {".docx", ".xlsx", ".pptx", ".doc", ".xls", ".ppt"}
pdfExts == {".pdf"}
zipExts == {".zip"}
videoExts == {".mp4", ".mkv", ".mov", ".avi", ".wmv", ".flv", ".webm"}

\* detected?.mime ?? '' reduced to what the router tests: the kinds "image"
\* and "video" stand for image/* and video/*, "pdf" and "zip" for the exact
\* values; every other kind (ooxml, audio, cfb, none) matches no test
MimeIs(kind, test) == kind = test

\* an if-chain that tests pdf before image
CategoryPdfFirst(ext, kind) ==
  IF ext \in pdfExts \/ MimeIs(kind, "pdf") THEN "pdf"
  ELSE IF ext \in imageExts \/ MimeIs(kind, "image") THEN "image"
  ELSE IF ext \in officeExts THEN "office"
  ELSE IF ext \in zipExts \/ MimeIs(kind, "zip") THEN "zip"
  ELSE IF ext \in videoExts \/ MimeIs(kind, "video") THEN "video"
  ELSE "other"

\* an if-chain whose last branch is taken unconditionally
CategoryNoReject(ext, kind) ==
  IF ext \in imageExts \/ MimeIs(kind, "image") THEN "image"
  ELSE IF ext \in pdfExts \/ MimeIs(kind, "pdf") THEN "pdf"
  ELSE IF ext \in officeExts THEN "office"
  ELSE IF ext \in zipExts \/ MimeIs(kind, "zip") THEN "zip"
  ELSE "video"

\* the if-chain of processByType, in its order
Category(ext, kind) ==
  IF ext \in imageExts \/ MimeIs(kind, "image") THEN "image"
  ELSE IF ext \in pdfExts \/ MimeIs(kind, "pdf") THEN "pdf"
  ELSE IF ext \in officeExts THEN "office"
  ELSE IF ext \in zipExts \/ MimeIs(kind, "zip") THEN "zip"
  ELSE IF ext \in videoExts \/ MimeIs(kind, "video") THEN "video"
  ELSE "other"

(* --------------------------- sanitizers --------------------------------- *)
\* the time a file gets when it is written during the batch
WriteTime == 2 * 10

\* Each sanitizer reads the input file f and either throws msg before
\* writing anything or produces the file it writes to the destination.
Cleaned(f) == [f EXCEPT !.meta = FALSE, !.time = WriteTime]
Thrown(m) == [throws |-> TRUE, msg |-> m, file |-> File("none", "", FALSE, FALSE, WriteTime)]
Written(f) == [throws |-> FALSE, msg |-> "", file |-> f]

\* sharp decodes images only
processImage(f) ==
  IF f.ok /\ f.kind = "image" THEN Written(Cleaned(f)) ELSE Thrown("decode")

\* pdf-lib loads PDF documents only
processPdf(f) ==
  IF f.ok /\ f.kind = "pdf" THEN Written(Cleaned(f)) ELSE Thrown("decode")

\* an office sanitizer without the check of the legacy extensions
processOfficeNoLegacyCheck(ext, f) ==
  IF f.ok /\ f.kind \in {"ooxml", "zip"} THEN Written(Cleaned(f))
  ELSE Thrown("cannot parse office file")

\* legacy extensions are refused before the file is read; JSZip loads any zip
\* container, OOXML or not
processOffice(ext, f) ==
  IF ext \in {".doc", ".xls", ".ppt"} THEN Thrown("legacy office format")
  ELSE IF f.ok /\ f.kind \in {"ooxml", "zip"} THEN Written(Cleaned(f))
  ELSE Thrown("cannot parse office file")

processZip(f) ==
  IF f.ok /\ f.kind \in {"ooxml", "zip"} THEN Written(Cleaned(f)) ELSE Thrown("decode")

\* ffmpeg remuxes media only, and refuses an output that is its input
processVideo(f, inPlace) ==
  IF f.ok /\ f.kind \in {"video", "audio"} /\ ~inPlace
    THEN Written(Cleaned(f)) ELSE Thrown("ffmpeg")

Sanitizer(cat, ext, f, inPlace) ==
  CASE cat = "image"  -> processImage(f)
    [] cat = "pdf"    -> processPdf(f)
    [] cat = "office" -> processOffice(ext, f)
    [] cat = "zip"    -> processZip(f)
    [] cat = "video"  -> processVideo(f, inPlace)

\* what a write that fails part-way leaves at the destination
Partial(f) == [f EXCEPT !.ok = FALSE, !.meta = FALSE, !.time = WriteTime]

(* ----------------------------- results ---------------------------------- *)
Result(in, out, st, ty, msg) ==
  [inputPath |-> in, outputPath |-> out, status |-> st, type |-> ty, message |-> msg]

\* { inputPath, outputPath, status: 'success', ...res }
SuccessResult(in, out, cat) == Result(in, out, "success", cat, "")
\* { inputPath, status: 'error', message: unsupported file type }
RejectResult(in) == Result(in, undefined, "error", "", "unsupported file type")
\* the catch of processByType
DispatchError(in, out, msg) == Result(in, out, "error", "", msg)
\* the catch of the handler's loop body
HandlerError(in, msg) == Result(in, undefined, "error", "", msg)
\* the result for an item without a path
InvalidResult == Result(EmptyPath, undefined, "error", "", "invalid path")

\* a push that puts the newest result first
PushFront(rs, r) == <<r>> \o rs

\* results.push(r)
Push(rs, r) == Append(rs, r)

\* a handler whose cleanup is not wrapped in its own try
OnThrowBareCleanup(site) ==
  CASE site \in {"resolve", "stat", "sniff", "utimes", "rename"} -> "catch"
    [] site = "sanitizer" -> "dispatcher"
    [] OTHER -> "raised"

\* where an exception thrown at a site is caught: the try of the loop body
\* ("catch"), the try of processByType ("dispatcher"), the inner try of the
\* catch block ("ignore"); anything else would leave the handler ("raised")
OnThrow(site) ==
  CASE site \in {"resolve", "stat", "sniff", "utimes", "rename"} -> "catch"
    [] site = "sanitizer" -> "dispatcher"
    [] site = "cleanup" -> "ignore"
    [] OTHER -> "raised"

(* ------------------------------ state ----------------------------------- *)
VARIABLES
  items,      \* payload.items
  options,    \* payload.options
  idx,        \* position of the for loop, 1-based
  pc,         \* next step of the handler
  fs,         \* the files: path -> file
  dirs,       \* the directories that exist
  results,    \* the results array
  cur,        \* locals of the loop body: outputPath, stat, result, err
  faults,     \* number of faults injected so far
  pre,        \* history: fs when the current item began
  log,        \* history: one record per call of processByType
  faulted,    \* history: indices of the items that met an injected fault
  unlinkFailed, \* history: the cleanup of the last item could not delete
  san         \* a sanitizer at work on one input, outside the handler

vars == <<items, options, idx, pc, fs, dirs, results, cur, faults, pre, log,
          faulted, unlinkFailed, san>>

\* no sanitizer is under study
SanIdle == [kind |-> "none"]

NoCur == [outputPath |-> undefined, stat |-> 0, result |-> InvalidResult, err |-> ""]

BatchSet == UNION {[1..n -> ItemSet] : n \in 0..MaxItems}

Init ==
  /\ items \in BatchSet
  /\ options \in OptionSet
  /\ idx = 1
  /\ pc = "loop"
  /\ fs = World
  /\ dirs = WorldDirs
  /\ results = <<>>
  /\ cur = NoCur
  /\ faults = 0
  /\ pre = World
  /\ log = <<>>
  /\ faulted = {}
  /\ unlinkFailed = FALSE
  /\ san = SanIdle

\* an IO or tool fault may be injected while the budget lasts
MayFault == faults < MaxFaults

WriteFile(f, p, c) == [q \in (DOMAIN f) \cup {p} |-> IF q = p THEN c ELSE f[q]]
Unlink(f, p) == [q \in (DOMAIN f) \ {p} |-> f[q]]
\* stat.atime / stat.mtime: a Date, which holds whole milliseconds (rounded)
ToDate(t) == ((t + 1) \div 2) * 2

\* a handler that does not call utimes
SetTimesNoop(f, p, t) == f

\* fs.promises.utimes(p, atime, mtime)
SetTimes(f, p, t) == [f EXCEPT ![p].time = t]

\* a rename that copies and leaves the source behind
RenameKeepsSource(f, from, to) == WriteFile(f, to, f[from])

\* fs.promises.rename(from, to)
RenameFile(f, from, to) ==
  [q \in ((DOMAIN f) \ {from}) \cup {to} |-> IF q = to THEN f[from] ELSE f[q]]

(* ----------------------------- actions ---------------------------------- *)
item == items[idx]

\* a loop body that moves on without recording its result
RecordSkipsPush(r) ==
  /\ results' = results
  /\ idx' = idx + 1
  /\ pc' = "loop"
  /\ cur' = NoCur

\* bookkeeping when the loop body ends with the result r
Record(r) ==
  /\ results' = Push(results, r)
  /\ idx' = idx + 1
  /\ pc' = "loop"
  /\ cur' = NoCur

\* bookkeeping when a step of the try block throws msg
Throw(site, msg, injected) ==
  /\ pc' = OnThrow(site)
  /\ cur' = [cur EXCEPT !.err = msg]
  /\ faults' = IF injected THEN faults + 1 ELSE faults
  /\ faulted' = IF injected THEN faulted \cup {idx} ELSE faulted

\* return results
Return ==
  /\ pc = "loop"
  /\ idx > Len(items)
  /\ pc' = "done"
  /\ UNCHANGED <<items, options, idx, fs, dirs, results, cur, faults, pre, log,
                 faulted, unlinkFailed>>
  /\ UNCHANGED san

\* if (!item?.path) { results.push({inputPath: "", ...}); continue; }
SkipInvalid ==
  /\ pc = "loop"
  /\ idx <= Len(items)
  /\ item.path = EmptyPath
  /\ Record(InvalidResult)
  /\ pre' = fs
  /\ unlinkFailed' = FALSE
  /\ UNCHANGED <<items, options, fs, dirs, faults, log, faulted>>
  /\ UNCHANGED san

\* const { outputPath, backupPath } = await resolvePaths(item.path, options)
\* (backupPath is never set by resolvePaths, so the copyFile is never run)
Resolve ==
  /\ pc = "loop"
  /\ idx <= Len(items)
  /\ item.path # EmptyPath
  /\ pre' = fs
  /\ unlinkFailed' = FALSE
  /\ LET r == resolvePaths(item.path, options) IN
       \/ /\ r.throws
          /\ Throw("resolve", r.msg, FALSE)
          /\ dirs' = dirs
       \/ /\ ~r.throws /\ r.mkdir /\ MayFault     \* mkdir fails
          /\ Throw("resolve", "EACCES", TRUE)
          /\ dirs' = dirs
       \/ /\ ~r.throws
          /\ dirs' = IF r.mkdir THEN dirs \cup {options.outputDir} ELSE dirs
          /\ cur' = [cur EXCEPT !.outputPath = r.outputPath]
          /\ pc' = "stat"
          /\ UNCHANGED <<faults, faulted>>
  /\ UNCHANGED <<items, options, idx, fs, results, log>>
  /\ UNCHANGED san

\* const stat = await fs.promises.stat(item.path)
Stat ==
  /\ pc = "stat"
  /\ \/ /\ item.path \notin DOMAIN fs
        /\ Throw("stat", "ENOENT", FALSE)
     \/ /\ item.path \in DOMAIN fs /\ MayFault
        /\ Throw("stat", "EIO", TRUE)
     \/ /\ item.path \in DOMAIN fs
        /\ cur' = [cur EXCEPT !.stat = ToDate(fs[item.path].time)]
        /\ pc' = "dispatch"
        /\ UNCHANGED <<faults, faulted>>
  /\ UNCHANGED <<items, options, idx, fs, dirs, results, pre, log, unlinkFailed>>
  /\ UNCHANGED san

LogEntry(cat, threw, wrote) ==
  [item |-> idx, ext |-> toLowerCase(item.path.ext),
   kind |-> IF item.path \in DOMAIN fs THEN fs[item.path].kind ELSE "missing",
   cat |-> cat, threw |-> threw, wrote |-> wrote]

\* const result = await processByType(item.path, outputPath)
Dispatch ==
  /\ pc = "dispatch"
  /\ LET in == item.path
         out == cur.outputPath
         ext == toLowerCase(in.ext)
         f == fs[in]
         cat == Category(ext, f.kind)
         res == Sanitizer(cat, ext, f, in = out)
     IN
       \* fileTypeFromFile rejects: outside the try of processByType
       \/ /\ MayFault
          /\ Throw("sniff", "EIO", TRUE)
          /\ log' = Append(log, LogEntry("none", TRUE, FALSE))
          /\ fs' = fs
       \* no branch of the if-chain matches
       \/ /\ cat = "other"
          /\ cur' = [cur EXCEPT !.result = RejectResult(in)]
          /\ pc' = "after"
          /\ log' = Append(log, LogEntry(cat, FALSE, FALSE))
          /\ UNCHANGED <<fs, faults, faulted>>
       \* the sanitizer throws before it writes
       \/ /\ cat # "other" /\ res.throws
          /\ OnThrow("sanitizer") = "dispatcher"
          /\ cur' = [cur EXCEPT !.result = DispatchError(in, out, res.msg)]
          /\ pc' = "after"
          /\ log' = Append(log, LogEntry(cat, FALSE, FALSE))
          /\ UNCHANGED <<fs, faults, faulted>>
       \* the sanitizer's read fails
       \/ /\ cat # "other" /\ ~res.throws /\ MayFault
          /\ OnThrow("sanitizer") = "dispatcher"
          /\ cur' = [cur EXCEPT !.result = DispatchError(in, out, "EIO")]
          /\ pc' = "after"
          /\ log' = Append(log, LogEntry(cat, FALSE, FALSE))
          /\ faults' = faults + 1
          /\ faulted' = faulted \cup {idx}
          /\ fs' = fs
       \* the sanitizer's write (or the remux) fails part-way
       \/ /\ cat # "other" /\ ~res.throws /\ MayFault
          /\ OnThrow("sanitizer") = "dispatcher"
          /\ cur' = [cur EXCEPT !.result = DispatchError(in, out, "ENOSPC")]
          /\ pc' = "after"
          /\ log' = Append(log, LogEntry(cat, FALSE, TRUE))
          /\ faults' = faults + 1
          /\ faulted' = faulted \cup {idx}
          /\ fs' = WriteFile(fs, out, Partial(res.file))
       \* the sanitizer writes its output
       \/ /\ cat # "other" /\ ~res.throws
          /\ cur' = [cur EXCEPT !.result = SuccessResult(in, out, cat)]
          /\ pc' = "after"
          /\ log' = Append(log, LogEntry(cat, FALSE, TRUE))
          /\ fs' = WriteFile(fs, out, res.file)
          /\ UNCHANGED <<faults, faulted>>
  /\ UNCHANGED <<items, options, idx, dirs, results, pre, unlinkFailed>>
  /\ UNCHANGED san

\* await fs.promises.utimes(outputPath, stat.atime, stat.mtime)
Utimes ==
  /\ pc = "after"
  /\ cur.result.status = "success"
  /\ \/ /\ cur.outputPath \notin DOMAIN fs
        /\ Throw("utimes", "ENOENT", FALSE)
        /\ fs' = fs
     \/ /\ cur.outputPath \in DOMAIN fs /\ MayFault
        /\ Throw("utimes", "EPERM", TRUE)
        /\ fs' = fs
     \/ /\ cur.outputPath \in DOMAIN fs
        /\ fs' = SetTimes(fs, cur.outputPath, cur.stat)
        /\ pc' = IF options.overwriteSource THEN "rename" ELSE "push"
        /\ UNCHANGED <<cur, faults, faulted>>
  /\ UNCHANGED <<items, options, idx, dirs, results, pre, log, unlinkFailed>>
  /\ UNCHANGED san

\* await fs.promises.rename(outputPath, item.path); result.outputPath = item.path
Rename ==
  /\ pc = "rename"
  /\ \/ /\ MayFault
        /\ Throw("rename", "EBUSY", TRUE)
        /\ fs' = fs
     \/ /\ fs' = RenameFile(fs, cur.outputPath, item.path)
        /\ cur' = [cur EXCEPT !.result.outputPath = item.path]
        /\ pc' = "push"
        /\ UNCHANGED <<faults, faulted>>
  /\ UNCHANGED <<items, options, idx, dirs, results, pre, log, unlinkFailed>>
  /\ UNCHANGED san

\* results.push(result)
PushResult ==
  /\ \/ pc = "push"
     \/ pc = "after" /\ cur.result.status # "success"
  /\ Record(cur.result)
  /\ UNCHANGED <<items, options, fs, dirs, faults, pre, log, faulted, unlinkFailed>>
  /\ UNCHANGED san

\* catch (err) { try { resolvePaths again; unlink the temp file } catch {}
\*               results.push({inputPath, status: "error", message}) }
Catch ==
  /\ pc = "catch"
  /\ LET r == resolvePaths(item.path, options)
         temp == r.outputPath
         rec == Record(HandlerError(item.path, cur.err))
     IN
       \* resolvePaths throws again, or there is nothing to delete
       \/ /\ r.throws \/ ~options.overwriteSource \/ temp \notin DOMAIN fs
          /\ rec
          /\ dirs' = IF r.mkdir THEN dirs \cup {options.outputDir} ELSE dirs
          /\ UNCHANGED <<fs, faults, faulted, unlinkFailed>>
       \* the second mkdir fails: ignored
       \/ /\ ~r.throws /\ r.mkdir /\ MayFault
          /\ OnThrow("cleanup") = "ignore"
          /\ rec
          /\ faults' = faults + 1
          /\ faulted' = faulted \cup {idx}
          /\ UNCHANGED <<fs, dirs, unlinkFailed>>
       \* the temporary file is deleted
       \/ /\ ~r.throws /\ options.overwriteSource /\ temp \in DOMAIN fs
          /\ rec
          /\ fs' = Unlink(fs, temp)
          /\ UNCHANGED <<dirs, faults, faulted, unlinkFailed>>
       \* unlink fails: ignored
       \/ /\ ~r.throws /\ options.overwriteSource /\ temp \in DOMAIN fs /\ MayFault
          /\ IF OnThrow("cleanup") = "ignore"
               THEN rec
               ELSE pc' = "raised" /\ UNCHANGED <<results, idx, cur>>
          /\ faults' = faults + 1
          /\ faulted' = faulted \cup {idx}
          /\ unlinkFailed' = TRUE
          /\ UNCHANGED <<fs, dirs>>
  /\ UNCHANGED <<items, options, pre, log>>
  /\ UNCHANGED san

Next ==
  \/ Return
  \/ SkipInvalid
  \/ Resolve
  \/ Stat
  \/ Dispatch
  \/ Utimes
  \/ Rename
  \/ PushResult
  \/ Catch

Spec == Init /\ [][Next]_vars

(* ======================= the sanitizers in detail ======================= *)
(* An archive is what JSZip holds: the entries in their order, and the      *)
(* archive comment.  An entry name is the list of its segments, as          *)
(* name.split("/") gives them: a folder name "a/" is <<"a", "">>.           *)
MaxEntries == 3    \* most entries of an input archive
MaxPages == 2      \* most pages of an input PDF

Entry(n, d, c, t, m) == [name |-> n, dir |-> d, content |-> c, date |-> t, method |-> m]
Archive(es, cm) == [entries |-> es, comment |-> cm]

Names(es) == {es[i].name : i \in 1..Len(es)}
\* zip.files[name]
Lookup(es, n) == es[CHOOSE i \in 1..Len(es) : es[i].name = n]
\* zip.file(name): the entry if it exists and is not a folder
HasFile(es, n) == \E i \in 1..Len(es) : es[i].name = n /\ ~es[i].dir

\* name.startsWith(prefix) for a prefix that ends with "/"
StartsWithFolder(n, folder) ==
  /\ Len(n) >= Len(folder)
  /\ SubSeq(n, 1, Len(folder) - 1) = SubSeq(folder, 1, Len(folder) - 1)

\* JSZip parentFolder(path), with the trailing slash folderAdd gives it:
\* <<>> when the entry is at the root
ParentFolder(n) ==
  LET bare == IF n[Len(n)] = "" THEN SubSeq(n, 1, Len(n) - 1) ELSE n
  IN IF Len(bare) > 1 THEN SubSeq(bare, 1, Len(bare) - 1) \o <<"">> ELSE <<>>

\* JSZip folderAdd(name, createFolders): the folder entry, created after its
\* own parents, when it does not exist yet
RECURSIVE FolderAdd(_, _)
FolderAdd(es, n) ==
  IF n = <<>> \/ n \in Names(es) THEN es
  ELSE Append(FolderAdd(es, ParentFolder(n)), Entry(n, TRUE, <<>>, "now", "STORE"))

\* JSZip fileAdd, as zip.file(name, data, {date}) calls it: createFolders is
\* true by default, so the parent folders are added first; an existing entry
\* is replaced in place; no compression is set on the entry
FileAdd(es, n, c, t) ==
  LET withParents == FolderAdd(es, ParentFolder(n))
  IN IF n \in Names(withParents)
       THEN [i \in 1..Len(withParents) |->
               IF withParents[i].name = n THEN Entry(n, FALSE, c, t, "none")
               ELSE withParents[i]]
       ELSE Append(withParents, Entry(n, FALSE, c, t, "none"))

\* JSZip remove(name): a file is deleted; a folder is deleted with all the
\* entries below it
Remove(es, n) ==
  IF HasFile(es, n)
    THEN SelectSeq(es, LAMBDA e : e.name # n)
    ELSE LET folder == IF n # <<>> /\ n[Len(n)] = "" THEN n ELSE n \o <<"">>
         IN SelectSeq(es, LAMBDA e : ~StartsWithFolder(e.name, folder))

\* a generateAsync that is given no compression: JSZip stores every entry
GenerateStored(es, compression) ==
  [i \in 1..Len(es) |-> [es[i] EXCEPT !.method = "STORE"]]

\* generateAsync({compression}): an entry is written with its own
\* compression option when it has one and with the archive-wide one
\* otherwise.  fileAdd, which loadAsync and file() both go through, sets the
\* option of a folder and of an empty file to STORE and of no other entry
Generate(es, compression) ==
  [i \in 1..Len(es) |->
     [es[i] EXCEPT !.method = IF es[i].dir \/ es[i].content = <<>> THEN "STORE"
                              ELSE compression]]

(* ------------------------------ processZip ------------------------------ *)
\* for (const entry of entries): folder(entry.name) or file(entry.name, ...)
RECURSIVE Rebuild(_, _, _)
Rebuild(es, i, rebuilt) ==
  IF i > Len(es) THEN rebuilt
  ELSE Rebuild(es, i + 1,
         IF es[i].dir THEN FolderAdd(rebuilt, es[i].name)
         ELSE FileAdd(rebuilt, es[i].name, es[i].content, es[i].date))

ZipRemoved == <<"ZIP comment/extra headers">>

processZipArchive(zip) ==
  [output |-> Archive(Generate(Rebuild(zip.entries, 1, <<>>), "DEFLATE"), ""),
   removed |-> ZipRemoved]

(* ----------------------------- processOffice ---------------------------- *)
(* The text of an XML part is a list of atoms: an atom is a run of          *)
(* characters the patterns of stripTrackRevisions never split, so that a    *)
(* pattern matches the text exactly where it matches the list.              *)
EMPTY_WORD_COMMENTS ==
  <<"<w:comments xmlns:w=wordprocessingml/2006/main", ">", "</w:comments", ">">>
EMPTY_XLSX_COMMENTS ==
  <<"<comments xmlns=spreadsheetml/2006/main", ">", "</comments", ">">>
EMPTY_PPT_COMMENTS ==
  <<"<p:cmLst xmlns:p=presentationml/2006/main", ">", "</p:cmLst", ">">>

COMMON_REMOVALS ==
  << <<"docProps", "core.xml">>, <<"docProps", "app.xml">>,
     <<"docProps", "custom.xml">>, <<"docProps", "thumbnail.emf">>,
     <<"docProps", "thumbnail.jpeg">> >>

CUSTOM_XML_PREFIX == <<"customXml", "">>

WORD_COMMENTS == <<"word", "comments.xml">>
WORD_COMMENTS_EXTENDED == <<"word", "commentsExtended.xml">>
WORD_SETTINGS == <<"word", "settings.xml">>

\* an entry of the removed list: the string pushed, as its name and the
\* words appended to it
Item0(n, note) == [name |-> n, note |-> note]

\* the document under work: the entries of zip and the removed list
Doc(es, r) == [entries |-> es, removed |-> r]

\* "<w:trackRevisions" begins at i
OpenAt(xml, i) ==
  i + 1 <= Len(xml) /\ xml[i] = "<w:track" /\ xml[i + 1] = "Revisions"

\* the first ">" at or after from, 0 when there is none
FirstGt(xml, from) ==
  IF \E j \in from..Len(xml) : xml[j] = ">"
    THEN CHOOSE j \in from..Len(xml) :
           xml[j] = ">" /\ \A k \in from..(j - 1) : xml[k] # ">"
    ELSE 0

\* /<w:trackRevisions[^>]*\/>/ matched at i: the index of its last atom, 0
\* when it does not match there.  [^>]* cannot pass a ">", so the match
\* ends at the first ">", which a "/" must precede
SelfClosingEnd(xml, i) ==
  IF ~OpenAt(xml, i) THEN 0
  ELSE LET g == FirstGt(xml, i + 2)
       IN IF g # 0 /\ g - 1 >= i + 2 /\ xml[g - 1] = "/" THEN g ELSE 0

\* /<w:trackRevisions[^>]*>[\s\S]*?<\/w:trackRevisions>/ matched at i: the
\* tag ends at the first ">", and the lazy body at the first closing tag
PairedEnd(xml, i) ==
  IF ~OpenAt(xml, i) THEN 0
  ELSE LET g == FirstGt(xml, i + 2)
           Closes(h) == h + 1 <= Len(xml) /\ xml[h] = "</w:trackRevisions"
                          /\ xml[h + 1] = ">"
       IN IF g # 0 /\ \E h \in (g + 1)..Len(xml) : Closes(h)
            THEN 1 + CHOOSE h \in (g + 1)..Len(xml) :
                       Closes(h) /\ \A k \in (g + 1)..(h - 1) : ~Closes(k)
            ELSE 0

\* xml.replace(/.../g, ''): the matches from the left, none overlapping
RECURSIVE ReplaceSelfClosing(_, _)
ReplaceSelfClosing(xml, i) ==
  IF i > Len(xml) THEN <<>>
  ELSE IF SelfClosingEnd(xml, i) # 0
    THEN ReplaceSelfClosing(xml, SelfClosingEnd(xml, i) + 1)
    ELSE <<xml[i]>> \o ReplaceSelfClosing(xml, i + 1)

RECURSIVE ReplacePaired(_, _)
ReplacePaired(xml, i) ==
  IF i > Len(xml) THEN <<>>
  ELSE IF PairedEnd(xml, i) # 0
    THEN ReplacePaired(xml, PairedEnd(xml, i) + 1)
    ELSE <<xml[i]>> \o ReplacePaired(xml, i + 1)

cleaned(xml) == ReplacePaired(ReplaceSelfClosing(xml, 1), 1)

stripTrackRevisions(d) ==
  IF ~HasFile(d.entries, WORD_SETTINGS) THEN d
  ELSE LET xml == Lookup(d.entries, WORD_SETTINGS).content
       IN IF cleaned(xml) # xml
            THEN Doc(FileAdd(d.entries, WORD_SETTINGS, cleaned(xml), "now"),
                     Append(d.removed, Item0(WORD_SETTINGS, "trackRevisions")))
            ELSE d

\* for (const entry of COMMON_REMOVALS), from the i-th on
RECURSIVE RemoveCommonEntries(_, _)
RemoveCommonEntries(d, i) ==
  IF i > Len(COMMON_REMOVALS) THEN d
  ELSE RemoveCommonEntries(
         IF HasFile(d.entries, COMMON_REMOVALS[i])
           THEN Doc(Remove(d.entries, COMMON_REMOVALS[i]),
                    Append(d.removed, Item0(COMMON_REMOVALS[i], "")))
           ELSE d,
         i + 1)

\* Object.keys(zip.files): the names in the order of the entries
Keys(es) == [i \in 1..Len(es) |-> es[i].name]

\* .forEach((f) => { removed.push(CUSTOM_XML_PREFIX); zip.remove(f); })
RECURSIVE RemoveCustomXml(_, _, _)
RemoveCustomXml(d, keys, i) ==
  IF i > Len(keys) THEN d
  ELSE RemoveCustomXml(
         Doc(Remove(d.entries, keys[i]),
             Append(d.removed, Item0(CUSTOM_XML_PREFIX, ""))),
         keys, i + 1)

removeCommon(d) ==
  LET common == RemoveCommonEntries(d, 1)
  IN RemoveCustomXml(common,
       SelectSeq(Keys(common.entries),
                 LAMBDA n : StartsWithFolder(n, CUSTOM_XML_PREFIX)), 1)

clearIfExists(d, fileName, content) ==
  IF HasFile(d.entries, fileName)
    THEN Doc(FileAdd(d.entries, fileName, content, "now"),
             Append(d.removed, Item0(fileName, "cleared")))
    ELSE d

processDocx(d) ==
  stripTrackRevisions(
    clearIfExists(
      clearIfExists(d, WORD_COMMENTS, EMPTY_WORD_COMMENTS),
      WORD_COMMENTS_EXTENDED, EMPTY_WORD_COMMENTS))

\* the name segments that begin with "comments"
CommentsSegments == {"comments", "comments.xml", "comments1.xml", "commentsExtended.xml"}
\* f.startsWith(folder + "/comments")
StartsWithComments(n, folder) ==
  Len(n) >= 2 /\ n[1] = folder /\ n[2] \in CommentsSegments

\* .forEach((f) => { removed.push(`${f} cleared`); zip.file(f, content); })
RECURSIVE ClearKeys(_, _, _, _)
ClearKeys(d, keys, i, content) ==
  IF i > Len(keys) THEN d
  ELSE ClearKeys(
         Doc(FileAdd(d.entries, keys[i], content, "now"),
             Append(d.removed, Item0(keys[i], "cleared"))),
         keys, i + 1, content)

processXlsx(d) ==
  ClearKeys(d, SelectSeq(Keys(d.entries), LAMBDA n : StartsWithComments(n, "xl")),
            1, EMPTY_XLSX_COMMENTS)

processPptx(d) ==
  ClearKeys(d, SelectSeq(Keys(d.entries), LAMBDA n : StartsWithComments(n, "ppt")),
            1, EMPTY_PPT_COMMENTS)

\* the container as generateAsync writes it after the removals; the archive
\* comment loadAsync read is written back
processOfficeContainer(ext, zip) ==
  LET common == removeCommon(Doc(zip.entries, <<>>))
      done == IF ext = ".docx" THEN processDocx(common)
              ELSE IF ext = ".xlsx" THEN processXlsx(common)
              ELSE IF ext = ".pptx" THEN processPptx(common)
              ELSE common
  IN [output |-> Archive(Generate(done.entries, "DEFLATE"), zip.comment),
      removed |-> done.removed]

(* ------------------------------- processPdf ----------------------------- *)
InfoKeys == {"Title", "Author", "Subject", "Keywords", "Producer", "Creator",
             "CreationDate", "ModDate"}
\* what processPdf sets: setTitle .. setCreator
InfoSet == {"Title", "Author", "Subject", "Keywords", "Producer", "Creator"}
Absent == "<absent>"

PdfRemoved == <<"Info/XMP", "annotations/form defaults">>

\* a processPdf that deletes the keys it is to blank
processPdfDeletesKeys(doc) ==
  [output |-> [info |-> [k \in InfoKeys |-> IF k \in InfoSet THEN Absent ELSE doc.info[k]],
               lang |-> Absent,
               metadata |-> FALSE,
               acroForm |-> doc.acroForm,
               annots |-> [i \in 1..Len(doc.annots) |-> FALSE]],
   removed |-> PdfRemoved]

\* a PDF: the Info dictionary, the catalog's Lang, Metadata and AcroForm,
\* and for each page whether it has Annots
processPdfDocument(doc) ==
  [output |-> [info |-> [k \in InfoKeys |-> IF k \in InfoSet THEN "" ELSE doc.info[k]],
               lang |-> "",
               metadata |-> FALSE,
               acroForm |-> doc.acroForm,
               annots |-> [i \in 1..Len(doc.annots) |-> FALSE]],
   removed |-> PdfRemoved]

(* ------------------------------ processImage ---------------------------- *)
supportedFormats == {"jpeg", "jpg", "png", "webp", "tiff", "gif", "avif", "heif"}
NoIcc == "<undefined>"
\* typeof meta.icc: sharp gives the profile as a Buffer
TypeOf(icc) == IF icc = NoIcc THEN "undefined" ELSE "object"

ImageRemoved == <<"EXIF/IPTC/XMP/MakerNotes", "thumbnails/custom chunks">>

\* an image: the format sharp detects, the extension of its path without
\* the dot, the ICC profile and whether it carries EXIF/IPTC/XMP
processImageData(img) ==
  LET iccProfile == IF TypeOf(img.icc) = "string" THEN img.icc ELSE NoIcc
      formatFromMeta == IF img.format \in supportedFormats THEN img.format ELSE ""
      formatFromExt == IF img.ext \in supportedFormats THEN img.ext ELSE ""
      targetFormat == IF formatFromMeta # "" THEN formatFromMeta
                      ELSE IF formatFromExt # "" THEN formatFromExt ELSE "png"
  IN [output |-> [format |-> targetFormat,
                  ext |-> img.ext,
                  \* withMetadata keeps the metadata and sets the profile;
                  \* without it sharp writes neither
                  icc |-> iccProfile,
                  exif |-> iccProfile # NoIcc /\ img.exif],
      removed |-> ImageRemoved]

(* ------------------------------ processVideo ---------------------------- *)
VideoRemoved == <<"global metadata", "stream metadata", "chapters", "encoder">>

\* a video: which kinds of metadata it carries.  -map_metadata -1 drops the
\* global tags, -map_chapters -1 the chapters, the bitexact flags and
\* encoder= the encoder tag; whether the ffmpeg at hand copies the tags of
\* the streams is not settled by the options alone (keepStream)
processVideoContainer(v, keepStream) ==
  [output |-> [global |-> FALSE, stream |-> v.stream /\ keepStream,
               chapters |-> FALSE, encoder |-> FALSE],
   removed |-> VideoRemoved]

(* ------------------- the sanitizers, each on its own input -------------- *)
MaxRuns == 2       \* most runs of a sanitizer over its own output

\* the entries of u whose index is in S, in the order of u
RECURSIVE Pick(_, _, _)
Pick(u, S, i) ==
  IF i > Len(u) THEN <<>>
  ELSE (IF i \in S THEN <<u[i]>> ELSE <<>>) \o Pick(u, S, i + 1)

Picks(u) == {Pick(u, S, 1) : S \in {T \in SUBSET (1..Len(u)) : Cardinality(T) <= MaxEntries}}

\* entries an input archive is made of
ZipUniverse(m) ==
  << Entry(<<"r.txt">>, FALSE, <<"r">>, "t1", m),
     Entry(<<"a", "">>, TRUE, <<>>, "t2", "STORE"),
     Entry(<<"a", "b.txt">>, FALSE, <<"b">>, "t3", m),
     Entry(<<"c", "d.txt">>, FALSE, <<"d">>, "t4", m),
     Entry(<<"e.txt">>, FALSE, <<>>, "t5", "STORE") >>

ZipInputs ==
  {Archive(es, cm) : es \in UNION {Picks(ZipUniverse(m)) : m \in {"STORE", "DEFLATE"}},
                     cm \in {"", "note"}}

\* texts of word/settings.xml
SettingsSet ==
  { <<"<w:zoom", "/", ">">>,
    <<"<w:track", "Revisions", "/", ">">>,
    <<"<w:track", "Revisions", " w:val=1", "/", ">", "<w:zoom", "/", ">">>,
    <<"<w:track", "Revisions", ">", "</w:trackRevisions", ">">>,
    <<"<w:track", "<w:track", "Revisions", "/", ">", "Revisions", "/", ">">> }

OfficeUniverse(settings) ==
  << Entry(<<"docProps", "core.xml">>, FALSE, <<"core">>, "t1", "DEFLATE"),
     Entry(<<"docProps", "app.xml">>, FALSE, <<"app">>, "t1", "DEFLATE"),
     Entry(<<"docProps", "thumbnail.jpeg">>, FALSE, <<"thumb">>, "t1", "STORE"),
     Entry(<<"customXml", "">>, TRUE, <<>>, "t1", "STORE"),
     Entry(<<"customXml", "item1.xml">>, FALSE, <<"item">>, "t1", "DEFLATE"),
     Entry(<<"customXml", "itemProps1.xml">>, FALSE, <<"props">>, "t1", "DEFLATE"),
     Entry(<<"word", "document.xml">>, FALSE, <<"document">>, "t1", "DEFLATE"),
     Entry(WORD_COMMENTS, FALSE, <<"a comment">>, "t1", "DEFLATE"),
     Entry(WORD_COMMENTS_EXTENDED, FALSE, <<"a thread">>, "t1", "DEFLATE"),
     Entry(WORD_SETTINGS, FALSE, settings, "t1", "DEFLATE"),
     Entry(<<"xl", "comments1.xml">>, FALSE, <<"a note">>, "t1", "DEFLATE"),
     Entry(<<"xl", "workbook.xml">>, FALSE, <<"workbook">>, "t1", "DEFLATE"),
     Entry(<<"ppt", "comments", "comment1.xml">>, FALSE, <<"a remark">>, "t1", "DEFLATE") >>

OfficeInputs ==
  {Archive(es, "") : es \in UNION {Picks(OfficeUniverse(x)) : x \in SettingsSet}}

Values == {Absent, "", "v"}
PdfInputs ==
  {[info |-> [k \in InfoKeys |-> IF k = "Title" THEN a
                                 ELSE IF k \in InfoSet THEN b ELSE c],
    lang |-> l, metadata |-> m, acroForm |-> f, annots |-> p] :
     a \in Values, b \in Values, c \in {Absent, "v"}, l \in Values,
     m \in BOOLEAN, f \in BOOLEAN,
     p \in UNION {[1..n -> BOOLEAN] : n \in 0..MaxPages}}

ImageInputs ==
  {[format |-> f, ext |-> e, icc |-> i, exif |-> x] :
     f \in {"jpeg", "png", "svg"}, e \in {"jpg", "svg", ""},
     i \in {NoIcc, "Buffer"}, x \in BOOLEAN}

VideoInputs ==
  [global : BOOLEAN, stream : BOOLEAN, chapters : BOOLEAN, encoder : BOOLEAN]

\* before and removedBefore are the input and the removed list of the run
\* before the last one; keepsStream is how the ffmpeg at hand behaves
San(k, e, in) ==
  [kind |-> k, ext |-> e, input |-> in, before |-> in, output |-> in,
   removed |-> <<>>, removedBefore |-> <<>>, runs |-> 0, keepsStream |-> FALSE]

SanInit ==
  /\ items = <<>>
  /\ options = CHOOSE o \in OptionSet : o.overwriteSource
  /\ idx = 1
  /\ pc = "done"
  /\ fs = World
  /\ dirs = WorldDirs
  /\ results = <<>>
  /\ cur = NoCur
  /\ faults = 0
  /\ pre = World
  /\ log = <<>>
  /\ faulted = {}
  /\ unlinkFailed = FALSE
  /\ \/ \E z \in ZipInputs : san = San("zip", ".zip", z)
     \/ \E e \in {".docx", ".xlsx", ".pptx"} : \E z \in OfficeInputs : san = San("office", e, z)
     \/ \E d \in PdfInputs : san = San("pdf", ".pdf", d)
     \/ \E i \in ImageInputs : san = San("image", i.ext, i)
     \/ \E v \in VideoInputs : \E b \in BOOLEAN :
          san = [San("video", ".mp4", v) EXCEPT !.keepsStream = b]

\* one more run of the sanitizer, over what the last run wrote
Ran(r) ==
  /\ san.runs < MaxRuns
  /\ san' = [san EXCEPT !.before = san.output, !.output = r.output,
                        !.removedBefore = san.removed,
                        !.removed = r.removed, !.runs = san.runs + 1]
  /\ UNCHANGED <<items, options, idx, pc, fs, dirs, results, cur, faults, pre,
                 log, faulted, unlinkFailed>>

RunZip == san.kind = "zip" /\ Ran(processZipArchive(san.output))

RunOffice == san.kind = "office" /\ Ran(processOfficeContainer(san.ext, san.output))

RunPdf == san.kind = "pdf" /\ Ran(processPdfDocument(san.output))

RunImage == san.kind = "image" /\ Ran(processImageData(san.output))

RunVideo ==
  san.kind = "video" /\ Ran(processVideoContainer(san.output, san.keepsStream))

SanNext ==
  \/ RunZip
  \/ RunOffice
  \/ RunPdf
  \/ RunImage
  \/ RunVideo

SanSpec == SanInit /\ [][SanNext]_vars

(* ============================ claims ==================================== *)
LastIdx == idx - 1
ItemEnded == pc \in {"loop", "done"} /\ idx > 1
LastItem == items[LastIdx]
LastResult == results[LastIdx]
Overwrite == options.overwriteSource

\* C1: the result list has one result per input item, in input order: result i
\* carries item i's path as inputPath (the empty path when item i has none),
\* and when the handler has returned the two lists have the same length.
C1_OneResultPerItem ==
  /\ Len(results) <= Len(items)
  /\ \A i \in 1..Len(results) : results[i].inputPath = items[i].path
  /\ pc = "done" => Len(results) = Len(items)

\* a returned batch of two different items, a success followed by an error
C1_Witness ==
  /\ pc = "done" /\ Len(items) = MaxItems
  /\ results[1].status = "success" /\ results[Len(results)].status = "error"
  /\ items[1].path # items[Len(items)].path

\* C2: the handler never raises and never gets stuck before it returns; every
\* loop iteration, whatever its outcome, records one result and moves on to
\* the next item, so an error item never stops the loop.
C2_NeverRaises ==
  /\ pc # "raised"
  /\ pc # "done" => ENABLED Next
  /\ pc = "loop" => Len(results) = idx - 1
  /\ pc = "done" => idx = Len(items) + 1

\* a returned batch in which the first item met an injected fault and ended
\* with an error, and the last item was still processed and succeeded
C2_Witness ==
  /\ pc = "done" /\ Len(results) = MaxItems
  /\ results[1].status = "error" /\ 1 \in faulted
  /\ results[Len(results)].status = "success"

\* C3: in overwrite mode, when an item has ended with status success, the
\* original path holds the sanitized content (same payload, metadata gone,
\* decodable), the temporary sibling does not exist and outputPath is the
\* input path.
C3_OverwriteSuccess ==
  (ItemEnded /\ Overwrite /\ LastResult.status = "success") =>
    LET p == LastItem.path IN
      /\ p \in DOMAIN fs
      /\ fs[p].payload = pre[p].payload /\ ~fs[p].meta /\ fs[p].ok
      /\ TempPath(p, options) \notin DOMAIN fs
      /\ LastResult.outputPath = p

C3_Witness ==
  /\ ItemEnded /\ Overwrite /\ LastResult.status = "success"
  /\ pre[LastItem.path].meta

\* the file at path p of file system f, or "absent"
At(f, p) == IF p \in DOMAIN f THEN f[p] ELSE File("absent", "", FALSE, FALSE, 0)

\* C4 (as claimed): in overwrite mode, whenever an item has ended with status
\* error and the deletion itself did not fail, no temporary sibling of that
\* item remains, also when the error was returned by the dispatcher.
C4_TempDeletedOnError ==
  (ItemEnded /\ Overwrite /\ LastResult.status = "error"
     /\ LastItem.path # EmptyPath /\ ~unlinkFailed) =>
    TempPath(LastItem.path, options) \notin DOMAIN fs

\* C5 (as claimed): in overwrite mode, for every item that has ended with
\* status error, the content at its path is what it was before the batch.
C5_ErrorKeepsBatchOriginal ==
  Overwrite =>
    \A i \in 1..Len(results) :
      (results[i].status = "error" /\ items[i].path # EmptyPath) =>
        At(fs, items[i].path) = At(World, items[i].path)

\* C5 (amended): in overwrite mode the sanitizer writes only to the temporary
\* sibling (after processByType every other path is as it was when the item
\* began), and for an item that has ended with status error the content at
\* its path is what it was when that item began.
C5_ErrorKeepsOriginal ==
  Overwrite =>
    /\ pc = "after" =>
         /\ cur.outputPath # item.path
         /\ \A q \in ((DOMAIN fs) \cup (DOMAIN pre)) \ {cur.outputPath} :
              At(fs, q) = At(pre, q)
    /\ (ItemEnded /\ LastResult.status = "error" /\ LastItem.path # EmptyPath) =>
         At(fs, LastItem.path) = At(pre, LastItem.path)

\* an overwrite item ended with an error after its sanitizer had written part
\* of the output
C5_Witness ==
  /\ ItemEnded /\ Overwrite /\ LastResult.status = "error"
  /\ LastItem.path \in DOMAIN pre
  /\ Len(log) > 0 /\ log[Len(log)].item = LastIdx /\ log[Len(log)].wrote

\* the run of one item alone, without faults, on the files before the batch
AloneRun(it) ==
  LET in == it.path
      r == resolvePaths(in, options)
      out == r.outputPath
  IN
    IF in = EmptyPath THEN [result |-> InvalidResult, fs |-> World]
    ELSE IF r.throws THEN [result |-> HandlerError(in, r.msg), fs |-> World]
    ELSE IF in \notin DOMAIN World THEN [result |-> HandlerError(in, "ENOENT"), fs |-> World]
    ELSE
      LET f == World[in]
          ext == toLowerCase(in.ext)
          cat == Category(ext, f.kind)
          res == Sanitizer(cat, ext, f, in = out)
          written == WriteFile(World, out, [res.file EXCEPT !.time = ToDate(f.time)])
      IN
        IF cat = "other" THEN [result |-> RejectResult(in), fs |-> World]
        ELSE IF res.throws THEN [result |-> DispatchError(in, out, res.msg), fs |-> World]
        ELSE IF Overwrite
          THEN [result |-> SuccessResult(in, in, cat), fs |-> RenameFile(written, out, in)]
          ELSE [result |-> SuccessResult(in, out, cat), fs |-> written]

\* C6 (as claimed, on the batches in which no fault occurs): when the batch
\* has returned, every item has the result it has when processed alone, and
\* the file at its reported outputPath is the file the run alone leaves there.
C6_Independent ==
  (pc = "done" /\ faulted = {}) =>
    \A i \in 1..Len(items) :
      /\ results[i] = AloneRun(items[i]).result
      /\ results[i].outputPath # undefined =>
           At(fs, results[i].outputPath) = At(AloneRun(items[i]).fs, results[i].outputPath)

\* the sanitizer of category cat decodes file f
DecodableAs(cat, f) == ~Sanitizer(cat, "", f, FALSE).throws

\* C7 (as claimed, on the batches in which no fault occurs): when the batch
\* has returned, every success result has an outputPath, a file exists there,
\* and it is the sanitized output of the result's own input (its payload,
\* without metadata), decodable as the category of the result's type tag.
C7_SuccessHasOwnOutput ==
  (pc = "done" /\ faulted = {}) =>
    \A i \in 1..Len(results) :
      results[i].status = "success" =>
        LET out == results[i].outputPath IN
          /\ out # undefined
          /\ out \in DOMAIN fs
          /\ fs[out].payload = World[items[i].path].payload
          /\ ~fs[out].meta
          /\ DecodableAs(results[i].type, fs[out])

\* C8 (as claimed): no call of processByType propagates an exception.
C8_DispatcherNeverThrows ==
  \A k \in 1..Len(log) : ~log[k].threw

AllExts == imageExts \cup pdfExts \cup officeExts \cup zipExts \cup videoExts
RouterMimes == {"image", "pdf", "zip", "video"}

\* C9: when processByType has returned for a file whose extension is in no
\* extension set and whose sniffed MIME matches no test, the result is the
\* unsupported-file-type error without outputPath, no sanitizer was invoked
\* and no file was written.
C9_OtherRejected ==
  (pc = "after" /\ toLowerCase(item.path.ext) \notin AllExts
     /\ pre[item.path].kind \notin RouterMimes) =>
    /\ cur.result.status = "error"
    /\ cur.result.message = "unsupported file type"
    /\ cur.result.outputPath = undefined
    /\ cur.result.inputPath = item.path
    /\ log[Len(log)].cat = "other" /\ ~log[Len(log)].wrote
    /\ fs = pre

\* processByType has returned for a text file, and for an extension-less
\* OOXML file
C9_Witness ==
  /\ pc = "after" /\ item.path \in {T_TXT, N_NOEXT}
  /\ cur.result.status = "error"

\* the category a content signature belongs to, and an extension belongs to
SigCategory(kind) ==
  CASE kind = "image" -> "image"
    [] kind = "pdf" -> "pdf"
    [] kind = "ooxml" -> "office"
    [] kind = "zip" -> "zip"
    [] kind \in {"video", "audio"} -> "video"
    [] OTHER -> "none"
ExtCategory(ext) ==
  CASE ext \in imageExts -> "image"
    [] ext \in pdfExts -> "pdf"
    [] ext \in officeExts -> "office"
    [] ext \in zipExts -> "zip"
    [] ext \in videoExts -> "video"
    [] OTHER -> "none"

\* C10 (as claimed): either signal alone selects the category: a file whose
\* signature belongs to a category is dispatched to that category's
\* sanitizer whatever its extension, and a file without detected signature
\* whose extension belongs to a category is dispatched to that category.
C10_EitherSignalSuffices ==
  \A k \in 1..Len(log) :
    ~log[k].threw =>
      /\ SigCategory(log[k].kind) # "none" => log[k].cat = SigCategory(log[k].kind)
      /\ (SigCategory(log[k].kind) = "none" /\ ExtCategory(log[k].ext) # "none") =>
           log[k].cat = ExtCategory(log[k].ext)

\* a single item without faults runs as AloneRun says
AloneRunAgrees ==
  (pc = "done" /\ Len(items) = 1 /\ faulted = {}) =>
    /\ results[1] = AloneRun(items[1]).result
    /\ fs = AloneRun(items[1]).fs

NoOutputDir == ~Overwrite /\ options.outputDir = ""

\* C12 (as claimed): without overwriteSource and without outputDir, every
\* item ends with status error and the configuration error message, no
\* sanitizer is invoked and no file or directory is created or modified.
C12_EveryItemConfigError ==
  NoOutputDir =>
    /\ \A i \in 1..Len(results) :
         results[i].status = "error" /\ results[i].message = "no output dir"
    /\ log = <<>> /\ fs = World /\ dirs = WorldDirs

\* C12 (amended): without overwriteSource and without outputDir, every item
\* that has a path ends with status error and the configuration error message
\* (an item without a path ends with the invalid-path error), processByType
\* is never called and no file or directory is created or modified.
C12_ConfigError ==
  NoOutputDir =>
    /\ \A i \in 1..Len(results) :
         /\ results[i].status = "error"
         /\ results[i].message =
              IF items[i].path = EmptyPath THEN "invalid path" ELSE "no output dir"
    /\ log = <<>> /\ fs = World /\ dirs = WorldDirs
    /\ pc \notin {"stat", "dispatch", "after", "rename", "push"}

\* a returned batch without outputDir whose items are files that exist
C12_Witness ==
  /\ NoOutputDir /\ pc = "done" /\ Len(results) = MaxItems
  /\ \A i \in 1..Len(items) : items[i].path \in DOMAIN World

\* C13 (as claimed): after an item has ended with status success, the final
\* artifact has the timestamps the source had when the item began.
C13_TimesEqual ==
  (ItemEnded /\ LastResult.status = "success") =>
    At(fs, LastResult.outputPath).time = pre[LastItem.path].time

\* C13 (amended): after an item has ended with status success, the final
\* artifact exists and its timestamps are the source's timestamps rounded to
\* whole milliseconds: they differ from them by less than a millisecond.
C13_TimesEqualToMs ==
  (ItemEnded /\ LastResult.status = "success") =>
    LET out == LastResult.outputPath
        t == pre[LastItem.path].time
    IN
      /\ out \in DOMAIN fs
      /\ fs[out].time % 2 = 0
      /\ fs[out].time + 1 >= t /\ fs[out].time <= t + 1

\* an item whose source has a sub-millisecond timestamp has succeeded
C13_Witness ==
  /\ ItemEnded /\ LastResult.status = "success"
  /\ pre[LastItem.path].time % 2 = 1

LegacyExts == {".doc", ".xls", ".ppt"}
LastLog == log[Len(log)]

C15_Destination ==
  LET in == item.path
      sfx == IF options.copySuffix = NoSuffix THEN <<"-clean">> ELSE options.copySuffix
  IN
    /\ pc = "stat" =>
         IF options.overwriteSource
           THEN cur.outputPath =
                  [dir |-> in.dir, name |-> <<".">> \o in.name \o sfx \o <<"_tmp">>,
                   ext |-> in.ext]
           ELSE /\ cur.outputPath =
                     [dir |-> options.outputDir, name |-> in.name \o sfx, ext |-> in.ext]
                /\ options.outputDir \in dirs
    /\ options.overwriteSource => dirs = WorldDirs

\* resolvePaths has returned in overwrite mode although outputDir was given,
\* with the empty copySuffix
C15_Witness ==
  /\ pc = "stat" /\ options.overwriteSource
  /\ options.outputDir = "out" /\ options.copySuffix = <<>>

\* the paths whose file differs between the file systems f and g
Changed(f, g) == {q \in (DOMAIN f) \cup (DOMAIN g) : At(f, q) # At(g, q)}

\* C16: processing is strictly sequential: every step that touches the file
\* system or calls processByType belongs to the current item, touches only
\* that item's path and destination, and is taken when the results of all
\* earlier items are recorded; the loop moves to the next item only by
\* recording the current item's result.
C16_Sequential ==
  [][ /\ (fs' # fs \/ dirs' # dirs \/ log' # log) =>
           /\ idx <= Len(items) /\ idx' \in {idx, idx + 1}
           /\ Len(results) = idx - 1
           /\ Changed(fs, fs') \subseteq
                {item.path, resolvePaths(item.path, options).outputPath}
           /\ dirs' \subseteq dirs \cup {options.outputDir}
           /\ Len(log') > Len(log) => log'[Len(log')].item = idx
      /\ idx' # idx =>
           /\ idx' = idx + 1 /\ pc' = "loop"
           /\ Len(results') = idx
           /\ results'[idx].inputPath = items[idx].path
    ]_vars

\* the second item has written a file after the first item's result was
\* recorded
C16_Witness ==
  /\ idx = 2 /\ Len(results) = 1 /\ pc = "after"
  /\ fs # pre /\ results[1].status = "success"

(* ----------------------- claims about the sanitizers -------------------- *)
\* a sanitizer has run; san.before is what it read, san.output what it wrote
HasRun(k) == san.kind = k /\ san.runs >= 1

\* the thing an entry of a removed list names is in the input x
Present(k, x, r) ==
  CASE k = "zip" -> x.comment # ""
    [] k = "pdf" ->
         IF r = PdfRemoved[1]
           THEN \/ \E f \in InfoSet : x.info[f] \notin {Absent, ""}
                \/ x.lang \notin {Absent, ""}
                \/ x.metadata
           ELSE \E i \in 1..Len(x.annots) : x.annots[i]
    [] k = "image" -> x.exif \/ x.icc # NoIcc
    [] k = "video" ->
         IF r = VideoRemoved[1] THEN x.global
         ELSE IF r = VideoRemoved[2] THEN x.stream
         ELSE IF r = VideoRemoved[3] THEN x.chapters
         ELSE x.encoder
    [] k = "office" ->
         IF r.name = CUSTOM_XML_PREFIX
           THEN \E n \in Names(x.entries) : StartsWithFolder(n, CUSTOM_XML_PREFIX)
         ELSE IF r.note = "trackRevisions"
           THEN /\ HasFile(x.entries, r.name)
                /\ \E i \in 1..Len(Lookup(x.entries, r.name).content) :
                      OpenAt(Lookup(x.entries, r.name).content, i)
         ELSE HasFile(x.entries, r.name)

\* C11: every entry of the removed list a sanitizer returns names something
\* that was present in the input it read; an input without the metadata
\* yields no entry for it.
C11_RemovedWasPresent ==
  san.kind # "none" /\ san.runs >= 1 =>
    \A i \in 1..Len(san.removed) : Present(san.kind, san.before, san.removed[i])

\* the files of an archive: name -> content
Contents(es) ==
  [n \in {m \in Names(es) : HasFile(es, m)} |-> Lookup(es, n).content]

\* C17: the archive processZip rebuilds has exactly the entry names of the
\* original, every file has the original's content, and the archive has no
\* comment.
C17_RoundTrip ==
  HasRun("zip") =>
    /\ Names(san.output.entries) = Names(san.before.entries)
    /\ Contents(san.output.entries) = Contents(san.before.entries)
    /\ san.output.comment = ""

\* C18 as stated: processZip writes every file entry with the timestamp and
\* with the compression method it had in the original.
C18_SameDateAndMethod ==
  HasRun("zip") =>
    \A i \in 1..Len(san.before.entries) :
      LET e == san.before.entries[i]
      IN ~e.dir =>
           /\ HasFile(san.output.entries, e.name)
           /\ Lookup(san.output.entries, e.name).date = e.date
           /\ Lookup(san.output.entries, e.name).method = e.method

\* C18 amended: processZip writes every file entry with the timestamp it had
\* in the original, and deflated whatever its method was in the original;
\* only an empty file is stored.
C18_SameDateDeflated ==
  HasRun("zip") =>
    \A i \in 1..Len(san.before.entries) :
      LET e == san.before.entries[i]
      IN ~e.dir =>
           /\ HasFile(san.output.entries, e.name)
           /\ Lookup(san.output.entries, e.name).date = e.date
           /\ Lookup(san.output.entries, e.name).method =
                IF e.content = <<>> THEN "STORE" ELSE "DEFLATE"

\* processZip has rebuilt an archive that had a stored, non-empty file
C18_Witness ==
  /\ HasRun("zip")
  /\ \E i \in 1..Len(san.before.entries) :
        LET e == san.before.entries[i]
        IN /\ ~e.dir /\ e.content # <<>> /\ e.method = "STORE"
           /\ Lookup(san.output.entries, e.name).method = "DEFLATE"
           /\ Lookup(san.output.entries, e.name).date = e.date

\* the number of markers for the customXml/ prefix in a removed list
Markers(r) ==
  Cardinality({i \in 1..Len(r) : r[i] = Item0(CUSTOM_XML_PREFIX, "")})

\* C19: when an office container has entries under customXml/, none of them
\* is in the output and the removed list has exactly one marker for the
\* prefix; when it has none, the list has no marker.
C19_OneMarker ==
  HasRun("office") =>
    LET custom == {n \in Names(san.before.entries) :
                     StartsWithFolder(n, CUSTOM_XML_PREFIX)}
    IN /\ \A n \in Names(san.output.entries) :
            ~StartsWithFolder(n, CUSTOM_XML_PREFIX)
       /\ Markers(san.removed) = IF custom = {} THEN 0 ELSE 1

\* the empty document of the namespace of a comments part
CanonicalEmpty(n) ==
  IF n = WORD_COMMENTS_EXTENDED
    THEN <<"<w15:commentsEx xmlns:w15=word/2012/wordml", ">", "</w15:commentsEx", ">">>
    ELSE <<"<w:comments xmlns:w=wordprocessingml/2006/main", ">", "</w:comments", ">">>

\* C20: a comments part, and likewise an extended comments part, of a .docx
\* is kept in the output with the empty document of its namespace as its
\* content; a container without the part does not gain it.
C20_CommentsEmptied ==
  HasRun("office") /\ san.ext = ".docx" =>
    \A n \in {WORD_COMMENTS, WORD_COMMENTS_EXTENDED} :
      IF HasFile(san.before.entries, n)
        THEN /\ HasFile(san.output.entries, n)
             /\ Lookup(san.output.entries, n).content = CanonicalEmpty(n)
        ELSE n \notin Names(san.output.entries)

\* a track-revisions marker, in the self-closing or in the paired form
HasMarker(xml) ==
  \E i \in 1..Len(xml) : SelfClosingEnd(xml, i) # 0 \/ PairedEnd(xml, i) # 0

\* the elements of a settings text that are not the marker
OtherElements(xml) == SelectSeq(xml, LAMBDA a : a = "<w:zoom")

\* C21: after processOffice has processed a .docx, word/settings.xml has no
\* track-revisions marker in either form, whatever its text was, and every
\* other element of it is still there.
C21_NoMarkerLeft ==
  (HasRun("office") /\ san.ext = ".docx"
     /\ HasFile(san.before.entries, WORD_SETTINGS)) =>
    /\ HasFile(san.output.entries, WORD_SETTINGS)
    /\ ~HasMarker(Lookup(san.output.entries, WORD_SETTINGS).content)
    /\ OtherElements(Lookup(san.output.entries, WORD_SETTINGS).content)
         = OtherElements(Lookup(san.before.entries, WORD_SETTINGS).content)

Range(q) == {q[i] : i \in 1..Len(q)}

\* C22: sanitizing the output of a sanitizer again gives a removed list equal
\* to or smaller than the one of the run before, and an output equal to the
\* output of the run before.
C22_Idempotent ==
  (san.kind # "none" /\ san.runs >= 2) =>
    /\ san.output = san.before
    /\ Len(san.removed) <= Len(san.removedBefore)
    /\ Range(san.removed) \subseteq Range(san.removedBefore)

\* C22, the same for every sanitizer but processOffice
C22_IdempotentButOffice == san.kind # "office" => C22_Idempotent

\* C23: the ICC profile of the source image, and nothing else of its
\* metadata, is in the output of processImage; a source without a profile
\* gives an output without one.
C23_ProfileKept ==
  HasRun("image") =>
    /\ san.output.icc = san.before.icc
    /\ ~san.output.exif

\* C24: after processPdf each of title, author, subject, keywords, producer,
\* creator and language is present with the empty string as its value, the
\* catalog has no Metadata and no page has Annots.
C24_FieldsBlanked ==
  HasRun("pdf") =>
    /\ \A f \in InfoSet : san.output.info[f] = ""
    /\ san.output.lang = ""
    /\ ~san.output.metadata
    /\ \A i \in 1..Len(san.output.annots) : ~san.output.annots[i]

\* processPdf has run on a PDF with fields absent and fields set, with
\* Metadata and with a page that has Annots
C24_Witness ==
  /\ HasRun("pdf") /\ san.runs = 1
  /\ san.before.info["Title"] = Absent /\ san.before.info["Author"] = "v"
  /\ san.before.lang = Absent
  /\ san.before.metadata
  /\ \E i \in 1..Len(san.before.annots) : san.before.annots[i]
  /\ san.output.info["Title"] = "" /\ Len(san.output.annots) = Len(san.before.annots)

(* ----------------------- claims about the handler, again ---------------- *)
\* C25: without overwriteSource a batch never modifies, replaces or deletes
\* an input file: once an item has ended, the file at its path is the file
\* that was there before the batch, whatever outputDir and copySuffix are
\* (stated here for the batches that meet no fault).
C25_InputUntouched ==
  (~Overwrite /\ faulted = {}) =>
    \A i \in 1..Len(results) :
      items[i].path # EmptyPath => At(fs, items[i].path) = At(World, items[i].path)

\* the categories in the order processByType tests them, and the two signals
\* of each: its extensions and its sniffed types
CategoryOrder == <<"image", "pdf", "office", "zip", "video">>
Signals ==
  [image  |-> [exts |-> imageExts,  kinds |-> {"image"}],
   pdf    |-> [exts |-> pdfExts,    kinds |-> {"pdf"}],
   office |-> [exts |-> officeExts, kinds |-> {}],
   zip    |-> [exts |-> zipExts,    kinds |-> {"zip"}],
   video  |-> [exts |-> videoExts,  kinds |-> {"video"}]]
Matching(ext, kind) ==
  {i \in 1..Len(CategoryOrder) :
     \/ ext \in Signals[CategoryOrder[i]].exts
     \/ kind \in Signals[CategoryOrder[i]].kinds}
FirstMatch(ext, kind) ==
  IF Matching(ext, kind) = {} THEN "other"
  ELSE CategoryOrder[CHOOSE i \in Matching(ext, kind) :
                       \A j \in Matching(ext, kind) : i <= j]

\* C26: processByType sends a file to the first category, in the order image,
\* pdf, office, zip, video, of which the extension or the sniffed type
\* matches, also when the two point to different categories; it calls one
\* sanitizer per item, and a success result carries that category as type.
C26_FirstMatchWins ==
  /\ \A k \in 1..Len(log) :
       /\ ~log[k].threw => log[k].cat = FirstMatch(log[k].ext, log[k].kind)
       /\ \A j \in 1..(k - 1) : log[j].item < log[k].item
  /\ (pc = "after" /\ cur.result.status = "success") =>
       /\ LastLog.item = idx
       /\ cur.result.type = LastLog.cat
       /\ cur.result.type = FirstMatch(toLowerCase(item.path.ext), pre[item.path].kind)

\* processByType has been called on a file named .JPG whose content is a PDF
\* and has sent it to the image sanitizer
C26_Witness ==
  /\ pc = "after" /\ item.path = S_JPG
  /\ LastLog.item = idx /\ LastLog.kind = "pdf" /\ LastLog.cat = "image"
  /\ Matching(LastLog.ext, LastLog.kind) = {1, 2}

====
